---- MODULE Spec2Model ----
(***************************************************************************)
(* Model of the GenSpark AI Drive integration layer:                       *)
(*   - backend/main.py: the FastAPI handlers and GenSparkAIDriveConnector  *)
(*   - genspark-integration/transcription_service.py: the 4-stage pipeline *)
(*   - genspark-integration/ai_drive_manager.py: AIDriveManager            *)
(* Japanese string literals of the source are rendered in ASCII; the       *)
(* original text is quoted in the comment next to each.                    *)
(***************************************************************************)
EXTENDS Integers, Sequences, FiniteSets, TLC

\* ------------------------------------------------------------------ bounds
\* Number of HTTP requests in flight (each handled by its own task).
NumReqs == 2
\* Number of distinct values str(uuid.uuid4()) / caller-supplied ids take.
MaxId == 2

Reqs == 1..NumReqs
UUIDs == 1..MaxId

\* ------------------------------------------------------------------ sizes
\* Python integers are unbounded; 2 * 1024^3 does not fit a 32-bit integer,
\* so a byte count is kept as (gib, rem) = gib * 1024^3 + rem, 0 <= rem < 1024^3.
GiB == 1024 * 1024 * 1024

Bytes(g, b) == [gib |-> g, rem |-> b]

\* max_size = 2 * 1024 * 1024 * 1024  # 2GB
max_size == Bytes(2, 0)

\* The wrong limit a unit slip would give: 2 * 1024^4.
max_size_TiB == Bytes(2048, 0)

\* len(file_data) > max_size
len_gt(a, b) == a.gib > b.gib \/ (a.gib = b.gib /\ a.rem > b.rem)

\* Body sizes the requests are drawn from: exactly 2GB, and 2GB + 1.
BodySizes == {Bytes(2, 0), Bytes(2, 1)}

allowed_types == {"audio/mpeg", "audio/wav", "audio/mp4", "audio/m4a"}

\* Content types the requests are drawn from (two allowed, one not).
ContentTypes == {"audio/mpeg", "audio/m4a", "video/mp4"}

\* folder_path default: "智の泉/01_講演録"
default_folder == "chi-no-izumi/01_lectures"

\* ------------------------------------------------------------------ values
NoData == Bytes(-1, 0)
NoResult == [status |-> "none"]
NoResponse == [status_code |-> 0, content |-> NoResult]
NoRequest == [kind |-> "none"]

NoException == [type |-> "None"]
Exception == [type |-> "Exception"]
HTTPException(code) == [type |-> "HTTPException", status_code |-> code]

\* The outcome of the calls inside a connector method's try block
\* (uuid.uuid4(), datetime.now(), len()): a fresh id, or an exception.
Returned(v) == [raised |-> FALSE, value |-> v]
Raised == [raised |-> TRUE, value |-> 0]
UuidOutcomes == {Returned(i) : i \in UUIDs} \cup {Raised}

UploadRequests ==
    [kind : {"upload_audio"}, size : BodySizes, content_type : ContentTypes,
     filename : {"talk.mp3"}, folder_path : {default_folder}]
StartRequests == [kind : {"start_transcription"}, file_id : UUIDs]
StatusRequests == [kind : {"get_transcription_status"}, job_id : UUIDs]

VARIABLES
    request,     \* per request: the inputs FastAPI hands to the handler
    pc,          \* per request: the handler's position
    file_data,   \* per request: upload_audio's local file_data
    session,     \* per request: its connector's self.session
    result,      \* per request: the handler's local result
    response,    \* per request: the HTTP response sent
    issued,      \* history: the job ids start_transcription has returned
    known        \* history: whether a status call's job id had been issued

apiVars == <<request, pc, file_data, session, result, response, issued, known>>

VARIABLES
    ts_pc,            \* position inside transcribe_audio_4_stages
    audio_file_path,  \* argument of the current call
    output_folder,    \* argument of the current call
    results,          \* the local dict results
    ts_exc,           \* the exception propagating out of the async with body
    ts_pending,       \* the value of the return statement inside the scope
    ts_return,        \* what the call returned
    ts_sdk,           \* the GenSparkSDK session of the current call
    stdout,           \* the banners printed by the current call
    fs_dirs,          \* the directories that exist
    fs_files,         \* the files that exist, with their content
    writes,           \* history: the open(output_path, 'w') calls made, in order
    ncalls            \* calls made so far; also the event loop's clock reading

tsVars == <<ts_pc, audio_file_path, output_folder, results, ts_exc, ts_pending,
            ts_return, ts_sdk, stdout, fs_dirs, fs_files, writes, ncalls>>

VARIABLES
    adm_pc,       \* position inside the AIDriveManager method being run
    adm_op,       \* the method called and its arguments
    adm_sdk,      \* the GenSparkSDK session of the current call
    adm_exc,      \* the exception raised inside the method's try block, if any
    adm_pending,  \* the value of the return statement inside the scope
    adm_ret,      \* what the caller got: a returned dict, or a raised exception
    adm_calls     \* calls made so far

admVars == <<adm_pc, adm_op, adm_sdk, adm_exc, adm_pending, adm_ret, adm_calls>>

vars == <<apiVars, tsVars, admVars>>

\* ------------------------------------------------- GenSparkAIDriveConnector
\* __init__: self.session = None
Connector_init == "None"

\* __aexit__: if self.session: await self.session.close()
aexit_never_closes(s) == s

Connector_aexit(s) == IF s # "None" THEN "closed" ELSE s

\* the stage names listed by start_transcription
\*   "第1段階: 生音声 → 粗テキスト化", "第2段階: 話者識別・区切り整理",
\*   "第3段階: 内容完全性確保", "第4段階: 最終フォーマット調整"
stage_names ==
    << "stage1: raw audio -> rough text",
       "stage2: speaker identification and segmentation",
       "stage3: content integrity",
       "stage4: final formatting" >>

upload_file_to_ai_drive(data, filename, folder_path, u) ==
    IF u.raised
    THEN [status |-> "error", message |-> "upload error"]
    ELSE [status |-> "success", file_id |-> u.value, filename |-> filename,
          folder_path |-> folder_path,
          temp_url |-> <<"https://www.genspark.ai/aidrive/preview/?f_id=", u.value>>,
          upload_time |-> "now", file_size |-> data]

Connector_start_transcription(file_id, u) ==
    IF u.raised
    THEN [status |-> "error", message |-> "transcription start error"]
    ELSE [status |-> "success", job_id |-> u.value, file_id |-> file_id,
          message |-> "transcription started", estimated_time |-> "30-60min",
          stages |-> stage_names]

\* A status operation backed by a job store, which the source does not have.
status_from_job_store(job_id) ==
    IF job_id \in issued
    THEN [status |-> "processing", job_id |-> job_id, progress |-> 45,
          current_stage |-> stage_names[2], estimated_remaining |-> "20min"]
    ELSE [status |-> "error", message |-> "unknown job"]

Connector_get_transcription_status(job_id) ==
    [status |-> "processing", job_id |-> job_id, progress |-> 45,
     current_stage |-> stage_names[2], estimated_remaining |-> "20min"]

\* ------------------------------------------------------------- the handlers
\* upload_audio, lines 165-171, with the size limit a unit slip would give
validate_upload_TiB(data, content_type) ==
    IF len_gt(data, max_size_TiB) THEN HTTPException(413)
    ELSE IF content_type \notin allowed_types THEN HTTPException(400)
    ELSE NoException

\* upload_audio, lines 165-171, without the content-type check
validate_upload_size_only(data, content_type) ==
    IF len_gt(data, max_size) THEN HTTPException(413) ELSE NoException

\* upload_audio, lines 165-171, with the two checks in the other order
validate_upload_type_first(data, content_type) ==
    IF content_type \notin allowed_types THEN HTTPException(400)
    ELSE IF len_gt(data, max_size) THEN HTTPException(413)
    ELSE NoException

\* upload_audio, lines 161-171: the size check, then the content-type check
validate_upload(data, content_type) ==
    IF len_gt(data, max_size) THEN HTTPException(413)
    ELSE IF content_type \notin allowed_types THEN HTTPException(400)
    ELSE NoException

\* if result["status"] == "error": raise HTTPException(status_code=500, ...)
check_result(res) ==
    IF res.status = "error" THEN HTTPException(500) ELSE NoException

\* The handlers' except clauses without "except HTTPException: raise".
handler_except_wraps_all(e) == HTTPException(500)

\* except HTTPException: raise / except Exception as e: raise HTTPException(500)
handler_except(e) ==
    IF e.type = "HTTPException" THEN e ELSE HTTPException(500)

\* What FastAPI sends for a raised HTTPException / a returned JSONResponse.
ErrorResponse(e) == [status_code |-> e.status_code, content |-> NoResult]
JSONResponse(res) == [status_code |-> 200, content |-> res]

ApiInit ==
    /\ request = [r \in Reqs |-> NoRequest]
    /\ pc = [r \in Reqs |-> "idle"]
    /\ file_data = [r \in Reqs |-> NoData]
    /\ session = [r \in Reqs |-> Connector_init]
    /\ result = [r \in Reqs |-> NoResult]
    /\ response = [r \in Reqs |-> NoResponse]
    /\ issued = {}
    /\ known = [r \in Reqs |-> FALSE]

\* A request arrives and its handler task starts. upload_audio first awaits
\* file.read() (line 163), which hands over the whole body.
Request(r) ==
    /\ pc[r] = "idle"
    /\ \E q \in UploadRequests \cup StartRequests \cup StatusRequests :
          /\ request' = [request EXCEPT ![r] = q]
          /\ IF q.kind = "upload_audio"
             THEN /\ file_data' = [file_data EXCEPT ![r] = q.size]
                  /\ pc' = [pc EXCEPT ![r] = "validate"]
             ELSE /\ pc' = [pc EXCEPT ![r] = "enter"]
                  /\ UNCHANGED file_data
    /\ UNCHANGED <<session, result, response, issued, known>>
    /\ UNCHANGED <<tsVars, admVars>>

\* upload_audio, lines 165-171 and 186-189
upload_audio_validate(r) ==
    /\ pc[r] = "validate"
    /\ LET e == validate_upload(file_data[r], request[r].content_type)
       IN  IF e = NoException
           THEN /\ pc' = [pc EXCEPT ![r] = "enter"]
                /\ UNCHANGED response
           ELSE /\ pc' = [pc EXCEPT ![r] = "done"]
                /\ response' = [response EXCEPT ![r] = ErrorResponse(handler_except(e))]
    /\ UNCHANGED <<request, file_data, session, result, issued, known>>
    /\ UNCHANGED <<tsVars, admVars>>

\* async with GenSparkAIDriveConnector() as connector: __aenter__ opens the
\* aiohttp session, or raises, which the handler's except answers.
Connector_aenter(r) ==
    /\ pc[r] = "enter"
    /\ \E ok \in BOOLEAN :
          IF ok
          THEN /\ session' = [session EXCEPT ![r] = "open"]
               /\ pc' = [pc EXCEPT ![r] = "call"]
               /\ UNCHANGED response
          ELSE /\ pc' = [pc EXCEPT ![r] = "done"]
               /\ response' = [response EXCEPT ![r] = ErrorResponse(handler_except(Exception))]
               /\ UNCHANGED session
    /\ UNCHANGED <<request, file_data, result, issued, known>>
    /\ UNCHANGED <<tsVars, admVars>>

\* result = await connector.<method>(...), inside the scope
Connector_call(r) ==
    /\ pc[r] = "call"
    /\ \E u \in UuidOutcomes :
          LET q == request[r]
              res == CASE q.kind = "upload_audio" ->
                            upload_file_to_ai_drive(file_data[r], q.filename, q.folder_path, u)
                       [] q.kind = "start_transcription" ->
                            Connector_start_transcription(q.file_id, u)
                       [] OTHER ->
                            Connector_get_transcription_status(q.job_id)
          IN  /\ result' = [result EXCEPT ![r] = res]
              /\ issued' = IF q.kind = "start_transcription" /\ res.status = "success"
                           THEN issued \cup {res.job_id} ELSE issued
              /\ known' = IF q.kind = "get_transcription_status"
                          THEN [known EXCEPT ![r] = q.job_id \in issued] ELSE known
    /\ pc' = [pc EXCEPT ![r] = "exit"]
    /\ UNCHANGED <<request, file_data, session, response>>
    /\ UNCHANGED <<tsVars, admVars>>

\* leaving the async with block: __aexit__
Connector_exit(r) ==
    /\ pc[r] = "exit"
    /\ session' = [session EXCEPT ![r] = Connector_aexit(session[r])]
    /\ pc' = [pc EXCEPT ![r] = "check"]
    /\ UNCHANGED <<request, file_data, result, response, issued, known>>
    /\ UNCHANGED <<tsVars, admVars>>

\* lines 181-189: raise 500 for an error envelope, else return JSONResponse
handler_return(r) ==
    /\ pc[r] = "check"
    /\ LET e == check_result(result[r])
       IN  response' = [response EXCEPT ![r] =
              IF e = NoException THEN JSONResponse(result[r])
              ELSE ErrorResponse(handler_except(e))]
    /\ pc' = [pc EXCEPT ![r] = "done"]
    /\ UNCHANGED <<request, file_data, session, result, issued, known>>
    /\ UNCHANGED <<tsVars, admVars>>


\* ====================================================== TranscriptionService
\* Number of transcribe_audio_4_stages calls made on one service.
MaxCalls == 2

\* A path is a directory and a file name split as <<stem, suffix>>.
Path(d, stem, suffix) == [dir |-> d, name |-> <<stem, suffix>>]

\* The audio paths the calls are drawn from; missing.mp3 never exists.
AudioPaths ==
    {Path("in", "talk", ".mp3"), Path("in", "talk", ".wav"), Path("in", "missing", ".mp3")}
ExistingAudio == {Path("in", "talk", ".mp3"), Path("in", "talk", ".wav")}
OutputFolders == {"in", "out"}

\* os.path.basename(audio_file_path)
basename(p) == p.name

\* Path(audio_file_path).stem
stem(p) == p.name[1]

\* An output name that carries the time of the run: f"{audio_name}_{now}.md"
output_path_timestamped(audio, folder) == Path(folder, stem(audio), ToString(ncalls))

\* os.path.join(output_folder, f"{audio_name}_transcription.md")
output_path_of(audio, folder) == Path(folder, stem(audio), "_transcription.md")

\* A text is a sequence of tokens; s occurs in t as a contiguous run.
IsSubstring(s, t) ==
    \E i \in 0..(Len(t) - Len(s)) :
        \A j \in 1..Len(s) : t[i + j] = s[j]

NoReturn == [status |-> "none"]
KeyError(k) == [type |-> "KeyError", key |-> k]
SdkError == [type |-> "Exception", key |-> "sdk"]
NoExc == [type |-> "None", key |-> ""]

\* os.path.exists that a dropped check would amount to
path_exists_always(p, files) == TRUE

\* os.path.exists(audio_file_path)
path_exists(p, files) == p \in DOMAIN files

\* lines 45-48: "音声ファイルが見つかりません: {audio_file_path}"
not_found_envelope(p) ==
    [status |-> "error", message |-> <<"audio file not found: ", p>>]

\* lines 87-91: "文字起こしエラー: {str(e)}"
outer_except(e) ==
    [status |-> "error", message |-> <<"transcription error: ", e>>]

\* A return statement that is built before results["final"] is assigned.
success_envelope_without_final(audio, folder, res) ==
    [status |-> "success", message |-> "4-stage transcription completed",
     audio_file |-> audio, output_folder |-> folder,
     stages |-> [k \in DOMAIN res \ {"final"} |-> res[k]]]

\* A return statement whose status follows the outcome of the save.
success_envelope_status_of_final(audio, folder, res) ==
    [status |-> res["final"].status, message |-> "4-stage transcription completed",
     audio_file |-> audio, output_folder |-> folder, stages |-> res]

\* lines 79-85: "4段階文字起こしが完了しました"
success_envelope(audio, folder, res) ==
    [status |-> "success", message |-> "4-stage transcription completed",
     audio_file |-> audio, output_folder |-> folder, stages |-> res]

\* A lookup that falls back to an empty text: stage_result.get("text", "")
text_or_empty(res) ==
    IF "text" \in DOMAIN res THEN Returned(res.text) ELSE Returned(<<>>)

\* stageN_result["text"]: the text, or KeyError when the dict has no such key
subscript_text(res) ==
    IF "text" \in DOMAIN res THEN Returned(res.text) ELSE Raised

\* lines 93-112; "[第1段階] {basename} の粗テキスト化結果", "第1段階エラー: ..."
stage1_rough_transcription(audio, raised) ==
    IF raised
    THEN [status |-> "error", message |-> "stage1 error"]
    ELSE [status |-> "success",
          text |-> <<"[stage1] ">> \o basename(audio) \o <<" rough transcription result">>,
          confidence |-> "0.85", duration |-> "00:05:30"]

\* lines 114-132; "[第2段階] 話者識別済みテキスト:\n{text}", "第2段階エラー: ..."
stage2_speaker_identification(text, raised) ==
    IF raised
    THEN [status |-> "error", message |-> "stage2 error"]
    ELSE [status |-> "success",
          text |-> <<"[stage2] speaker-identified text:", "\n">> \o text,
          speakers |-> <<"speaker A", "speaker B">>, segments |-> 15]

\* A stage 3 that keeps only what follows the first line of its input.
stage3_drops_first_line(text, raised) ==
    IF raised
    THEN [status |-> "error", message |-> "stage3 error"]
    ELSE [status |-> "success",
          text |-> <<"[stage3] integrity-assured text:", "\n">> \o Tail(text),
          integrity_check |-> "passed", content_preserved |-> TRUE,
          original_length |-> Len(text)]

\* lines 134-152; "[第3段階] 完全性確保済みテキスト:\n{text}", "第3段階エラー: ..."
stage3_content_integrity(text, raised) ==
    IF raised
    THEN [status |-> "error", message |-> "stage3 error"]
    ELSE [status |-> "success",
          text |-> <<"[stage3] integrity-assured text:", "\n">> \o text,
          integrity_check |-> "passed", content_preserved |-> TRUE,
          original_length |-> Len(text)]

\* lines 154-192: the markdown template around {text}; now stands for
\* asyncio.get_event_loop().time(). "第4段階エラー: ..."
stage4_final_formatting(text, now, raised) ==
    IF raised
    THEN [status |-> "error", message |-> "stage4 error"]
    ELSE [status |-> "success",
          text |-> << "# lecture record - transcription result", "\n", "\n",
                      "## basic information", "\n",
                      "- processed at: ", ToString(now), "\n",
                      "- transcription stages: 4 stages completed", "\n",
                      "- content integrity: preserved", "\n", "\n",
                      "## body", "\n" >>
                   \o text
                   \o << "\n", "\n", "## processing log", "\n",
                         "- stage1: raw audio -> rough text [done]", "\n",
                         "- stage2: speaker identification and segmentation [done]", "\n",
                         "- stage3: content integrity [done]", "\n",
                         "- stage4: final formatting [done]", "\n" >>,
          format |-> "markdown",
          metadata |-> [stages_completed |-> 4, content_integrity |-> TRUE,
                        speaker_identified |-> TRUE]]

\* What the file system does to the save: nothing, or one of its calls raises.
IoOutcomes == {"ok", "makedirs_raises", "open_raises", "write_raises"}

\* lines 194-220: the returned dict and the file system the save leaves.
\* os.makedirs(exist_ok=True), then open(output_path, 'w') which creates or
\* truncates the file, then f.write(result["text"]). "保存エラー: {str(e)}"
\* opened lists the path open() was called on, if the save got that far.
save_transcription_result(res, audio, folder, dirs, files, io) ==
    LET out == output_path_of(audio, folder)
        err(e) == [status |-> "error", message |-> <<"save error: ", e>>]
        dirs1 == dirs \cup {folder}
        opened == [p \in DOMAIN files \cup {out} |-> IF p = out THEN <<>> ELSE files[p]]
        txt == subscript_text(res)
    IN  IF io = "makedirs_raises"
        THEN [ret |-> err("makedirs"), dirs |-> dirs, files |-> files, opened |-> <<>>]
        ELSE IF io = "open_raises"
        THEN [ret |-> err("open"), dirs |-> dirs1, files |-> files, opened |-> <<>>]
        ELSE IF txt.raised
        THEN [ret |-> err("KeyError: text"), dirs |-> dirs1, files |-> opened,
              opened |-> <<out>>]
        ELSE IF io = "write_raises"
        THEN [ret |-> err("write"), dirs |-> dirs1, files |-> opened, opened |-> <<out>>]
        ELSE [ret |-> [status |-> "success", output_file |-> out,
                       file_size |-> Len(txt.value),
                       message |-> "transcription result saved"],
              dirs |-> dirs1,
              files |-> [opened EXCEPT ![out] = txt.value],
              opened |-> <<out>>]

TsInit ==
    /\ ts_pc = "idle"
    /\ audio_file_path = Path("", "", "")
    /\ output_folder = ""
    /\ results = <<>>
    /\ ts_exc = NoExc
    /\ ts_pending = NoReturn
    /\ ts_return = NoReturn
    /\ ts_sdk = "None"
    /\ stdout = <<>>
    /\ fs_dirs = {"in"}
    /\ fs_files = [p \in ExistingAudio |-> <<"audio">>]
    /\ writes = <<>>
    /\ ncalls = 0

\* lines 42-50: the call, the existence check, results = {}
ts_call ==
    /\ ts_pc \in {"idle", "done"}
    /\ ncalls < MaxCalls
    /\ ncalls' = ncalls + 1
    /\ \E p \in AudioPaths, f \in OutputFolders :
          /\ audio_file_path' = p
          /\ output_folder' = f
          /\ IF path_exists(p, fs_files)
             THEN /\ ts_pc' = "enter"
                  /\ ts_return' = NoReturn
             ELSE /\ ts_pc' = "done"
                  /\ ts_return' = not_found_envelope(p)
    /\ results' = <<>>
    /\ ts_exc' = NoExc
    /\ ts_pending' = NoReturn
    /\ ts_sdk' = "None"
    /\ stdout' = <<>>
    /\ UNCHANGED <<fs_dirs, fs_files, writes>>
    /\ UNCHANGED <<apiVars, admVars>>

\* line 52: async with GenSparkSDK(...) as sdk: the session opens, or raises
ts_enter ==
    /\ ts_pc = "enter"
    /\ \E ok \in BOOLEAN :
          IF ok
          THEN /\ ts_sdk' = "open"
               /\ ts_pc' = "stage1"
               /\ UNCHANGED ts_return
          ELSE /\ ts_pc' = "done"
               /\ ts_return' = outer_except(SdkError)
               /\ UNCHANGED ts_sdk
    /\ UNCHANGED <<audio_file_path, output_folder, results, ts_exc, ts_pending,
                   stdout, fs_dirs, fs_files, writes, ncalls>>
    /\ UNCHANGED <<apiVars, admVars>>

\* lines 54-56
ts_stage1 ==
    /\ ts_pc = "stage1"
    /\ stdout' = Append(stdout, stage_names[1])
    /\ \E raised \in BOOLEAN :
          results' = results @@ ("stage1" :> stage1_rough_transcription(audio_file_path, raised))
    /\ ts_pc' = "stage2"
    /\ UNCHANGED <<audio_file_path, output_folder, ts_exc, ts_pending, ts_return,
                   ts_sdk, fs_dirs, fs_files, writes, ncalls>>
    /\ UNCHANGED <<apiVars, admVars>>

\* lines 59-61: the banner, then stage1_result["text"], then the stage
ts_stage2 ==
    /\ ts_pc = "stage2"
    /\ stdout' = Append(stdout, stage_names[2])
    /\ LET txt == subscript_text(results["stage1"])
       IN  IF txt.raised
           THEN /\ ts_exc' = KeyError("text")
                /\ ts_pc' = "exit"
                /\ UNCHANGED results
           ELSE /\ \E raised \in BOOLEAN :
                      results' = results @@
                          ("stage2" :> stage2_speaker_identification(txt.value, raised))
                /\ ts_pc' = "stage3"
                /\ UNCHANGED ts_exc
    /\ UNCHANGED <<audio_file_path, output_folder, ts_pending, ts_return, ts_sdk,
                   fs_dirs, fs_files, writes, ncalls>>
    /\ UNCHANGED <<apiVars, admVars>>

\* lines 64-66
ts_stage3 ==
    /\ ts_pc = "stage3"
    /\ stdout' = Append(stdout, stage_names[3])
    /\ LET txt == subscript_text(results["stage2"])
       IN  IF txt.raised
           THEN /\ ts_exc' = KeyError("text")
                /\ ts_pc' = "exit"
                /\ UNCHANGED results
           ELSE /\ \E raised \in BOOLEAN :
                      results' = results @@
                          ("stage3" :> stage3_content_integrity(txt.value, raised))
                /\ ts_pc' = "stage4"
                /\ UNCHANGED ts_exc
    /\ UNCHANGED <<audio_file_path, output_folder, ts_pending, ts_return, ts_sdk,
                   fs_dirs, fs_files, writes, ncalls>>
    /\ UNCHANGED <<apiVars, admVars>>

\* lines 69-71
ts_stage4 ==
    /\ ts_pc = "stage4"
    /\ stdout' = Append(stdout, stage_names[4])
    /\ LET txt == subscript_text(results["stage3"])
       IN  IF txt.raised
           THEN /\ ts_exc' = KeyError("text")
                /\ ts_pc' = "exit"
                /\ UNCHANGED results
           ELSE /\ \E raised \in BOOLEAN :
                      results' = results @@
                          ("stage4" :> stage4_final_formatting(txt.value, ncalls, raised))
                /\ ts_pc' = "save"
                /\ UNCHANGED ts_exc
    /\ UNCHANGED <<audio_file_path, output_folder, ts_pending, ts_return, ts_sdk,
                   fs_dirs, fs_files, writes, ncalls>>
    /\ UNCHANGED <<apiVars, admVars>>

\* lines 74-85: the save, results["final"], and the return statement
ts_save ==
    /\ ts_pc = "save"
    /\ \E io \in IoOutcomes :
          LET s == save_transcription_result(results["stage4"], audio_file_path,
                                             output_folder, fs_dirs, fs_files, io)
              res == results @@ ("final" :> s.ret)
          IN  /\ results' = res
              /\ fs_dirs' = s.dirs
              /\ fs_files' = s.files
              /\ writes' = writes \o [i \in 1..Len(s.opened) |->
                                        [audio |-> audio_file_path,
                                         folder |-> output_folder,
                                         path |-> s.opened[i]]]
              /\ ts_pending' = success_envelope(audio_file_path, output_folder, res)
    /\ ts_pc' = "exit"
    /\ UNCHANGED <<audio_file_path, output_folder, ts_exc, ts_return, ts_sdk,
                   stdout, ncalls>>
    /\ UNCHANGED <<apiVars, admVars>>

\* Leaving the async with block, by the return or by the KeyError: the SDK's
\* __aexit__ runs and may itself raise; lines 87-91 turn whatever propagates
\* into the error envelope. The SDK is the vendor's: a failing __aexit__ may
\* or may not have released the session.
ts_exit ==
    /\ ts_pc = "exit"
    /\ \E ok \in BOOLEAN, left \in {"open", "closed"} :
          IF ok
          THEN /\ ts_sdk' = "closed"
               /\ ts_return' = IF ts_exc # NoExc THEN outer_except(ts_exc) ELSE ts_pending
          ELSE /\ ts_sdk' = left
               /\ ts_return' = outer_except(SdkError)
    /\ ts_pc' = "done"
    /\ UNCHANGED <<audio_file_path, output_folder, results, ts_exc, ts_pending,
                   stdout, fs_dirs, fs_files, writes, ncalls>>
    /\ UNCHANGED <<apiVars, admVars>>

TsNext ==
    \/ ts_call
    \/ ts_enter
    \/ ts_stage1
    \/ ts_stage2
    \/ ts_stage3
    \/ ts_stage4
    \/ ts_save
    \/ ts_exit


\* ============================================================ AIDriveManager
\* Number of AIDriveManager calls made on one manager.
MaxDriveCalls == 2

NoCall == [op |-> "none"]
Propagates(e) == [raised |-> TRUE, value |-> e]
OSError == [type |-> "OSError", key |-> "getsize"]
SdkEnterError == [type |-> "Exception", key |-> "sdk_enter"]
SdkExitError == [type |-> "Exception", key |-> "sdk_exit"]

\* The calls a caller makes. target_folder: "智の泉/01_講演録/2024".
DriveCalls ==
    {[op |-> "create_folder_structure"]}
    \cup [op : {"upload_file"}, file_path : AudioPaths,
          target_folder : {"chi-no-izumi/01_lectures/2024"}]
    \cup [op : {"search_documents"}, query : {"capital"},
          folder_path : {"None", default_folder}]
    \cup [op : {"get_folder_contents"}, folder_path : {default_folder}]

Leaf == <<>>

\* lines 38-68: the folder taxonomy
\*   智の泉 / 01_講演録 {2024, 2025} / 02_文献資料 {論文 {経済学, 社会学},
\*   メディア記事 {新聞, 雑誌}, 政府文書} / 03_生成コンテンツ {講義録 {A4まとめ,
\*   図解資料}, 見解書, 分析レポート} / 04_システム {設定ファイル, ログ}
folder_structure ==
    "chi-no-izumi" :>
        (      "01_lectures" :> ("2024" :> Leaf @@ "2025" :> Leaf)
            @@ "02_literature" :>
                   (      "papers" :> ("economics" :> Leaf @@ "sociology" :> Leaf)
                       @@ "media_articles" :> ("newspapers" :> Leaf @@ "magazines" :> Leaf)
                       @@ "government_documents" :> Leaf )
            @@ "03_generated_content" :>
                   (      "lecture_notes" :> ("a4_summary" :> Leaf @@ "diagrams" :> Leaf)
                       @@ "opinions" :> Leaf
                       @@ "analysis_reports" :> Leaf )
            @@ "04_system" :> ("config_files" :> Leaf @@ "logs" :> Leaf) )

\* lines 31-76: no try block; "フォルダー構造が定義されました"
create_folder_structure ==
    Returned([status |-> "success", message |-> "folder structure defined",
              structure |-> folder_structure])

\* The except clause of a method that lets the exception through.
adm_except_reraises(op, e) == Propagates(e)

\* lines 110-114, 139-143, 166-170: except Exception as e: return {error}
\* "アップロードエラー", "検索エラー", "フォルダー内容取得エラー"
adm_except(op, e) ==
    Returned([status |-> "error",
              message |-> << CASE op = "upload_file" -> "upload error: "
                               [] op = "search_documents" -> "search error: "
                               [] OTHER -> "folder contents error: ", e >>])

\* lines 91-95: "ファイルが見つかりません: {file_path}"
upload_not_found(file_path) ==
    Returned([status |-> "error", message |-> <<"file not found: ", file_path>>])

\* os.path.getsize(file_path): the content's length, or OSError when the
\* file is gone
getsize(p, files) ==
    IF p \in DOMAIN files THEN Returned(Len(files[p])) ELSE Propagates(OSError)

\* The body of the async with block of each method: the dict its return
\* statement builds, or the exception raised while building it.
\* lines 103-108, 132-137, 160-164
adm_body(c, files) ==
    CASE c.op = "upload_file" ->
            LET size == getsize(c.file_path, files)
            IN  IF size.raised THEN size
                ELSE Returned([status |-> "success",
                               message |-> <<"file uploaded: ", c.file_path>>,
                               target_folder |-> c.target_folder,
                               file_size |-> size.value])
      [] c.op = "search_documents" ->
            Returned([status |-> "success", query |-> c.query,
                      folder_path |-> c.folder_path, results |-> <<>>])
      [] OTHER ->
            Returned([status |-> "success", folder_path |-> c.folder_path,
                      contents |-> <<>>])

AdmInit ==
    /\ adm_pc = "idle"
    /\ adm_op = NoCall
    /\ adm_sdk = "None"
    /\ adm_exc = NoExc
    /\ adm_pending = NoReturn
    /\ adm_ret = Returned(NoReturn)
    /\ adm_calls = 0

\* A caller invokes one of the four methods. create_folder_structure returns
\* at once; upload_file first checks os.path.exists(file_path).
adm_call ==
    /\ adm_pc \in {"idle", "done"}
    /\ adm_calls < MaxDriveCalls
    /\ adm_calls' = adm_calls + 1
    /\ \E c \in DriveCalls :
          /\ adm_op' = c
          /\ IF c.op = "create_folder_structure"
             THEN /\ adm_pc' = "done"
                  /\ adm_ret' = create_folder_structure
             ELSE IF c.op = "upload_file" /\ ~path_exists(c.file_path, fs_files)
             THEN /\ adm_pc' = "done"
                  /\ adm_ret' = upload_not_found(c.file_path)
             ELSE /\ adm_pc' = "enter"
                  /\ adm_ret' = Returned(NoReturn)
    /\ adm_sdk' = "None"
    /\ adm_exc' = NoExc
    /\ adm_pending' = NoReturn
    /\ UNCHANGED <<apiVars, tsVars>>

\* async with GenSparkSDK(...) as sdk: the session opens, or raises
adm_enter ==
    /\ adm_pc = "enter"
    /\ \E ok \in BOOLEAN :
          IF ok
          THEN /\ adm_sdk' = "open"
               /\ adm_pc' = "body"
               /\ UNCHANGED <<adm_exc, adm_ret>>
          ELSE /\ adm_pc' = "done"
               /\ adm_exc' = SdkEnterError
               /\ adm_ret' = adm_except(adm_op.op, SdkEnterError)
               /\ UNCHANGED adm_sdk
    /\ UNCHANGED <<adm_op, adm_pending, adm_calls>>
    /\ UNCHANGED <<apiVars, tsVars>>

\* the statements inside the scope, up to the return statement
adm_run_body ==
    /\ adm_pc = "body"
    /\ LET b == adm_body(adm_op, fs_files)
       IN  IF b.raised
           THEN /\ adm_exc' = b.value
                /\ UNCHANGED adm_pending
           ELSE /\ adm_pending' = b.value
                /\ UNCHANGED adm_exc
    /\ adm_pc' = "exit"
    /\ UNCHANGED <<adm_op, adm_sdk, adm_ret, adm_calls>>
    /\ UNCHANGED <<apiVars, tsVars>>

\* leaving the scope: __aexit__ runs and may raise; the except clause turns
\* whatever propagates into the error dict
adm_exit ==
    /\ adm_pc = "exit"
    /\ \E ok \in BOOLEAN, left \in {"open", "closed"} :
          IF ok
          THEN /\ adm_sdk' = "closed"
               /\ adm_ret' = IF adm_exc # NoExc THEN adm_except(adm_op.op, adm_exc)
                             ELSE Returned(adm_pending)
               /\ UNCHANGED adm_exc
          ELSE /\ adm_sdk' = left
               /\ adm_exc' = SdkExitError
               /\ adm_ret' = adm_except(adm_op.op, SdkExitError)
    /\ adm_pc' = "done"
    /\ UNCHANGED <<adm_op, adm_pending, adm_calls>>
    /\ UNCHANGED <<apiVars, tsVars>>

\* Another process removes a file while the manager runs.
env_unlink ==
    /\ \E p \in DOMAIN fs_files :
          fs_files' = [q \in DOMAIN fs_files \ {p} |-> fs_files[q]]
    /\ UNCHANGED <<ts_pc, audio_file_path, output_folder, results, ts_exc,
                   ts_pending, ts_return, ts_sdk, stdout, fs_dirs, writes, ncalls>>
    /\ UNCHANGED <<apiVars, admVars>>

AdmNext ==
    \/ adm_call
    \/ adm_enter
    \/ adm_run_body
    \/ adm_exit
    \/ env_unlink

Init == ApiInit /\ TsInit /\ AdmInit

ApiNext ==
    \E r \in Reqs :
        \/ Request(r)
        \/ upload_audio_validate(r)
        \/ Connector_aenter(r)
        \/ Connector_call(r)
        \/ Connector_exit(r)
        \/ handler_return(r)

SpecApi == Init /\ [][ApiNext]_vars

SpecTranscribe == Init /\ [][TsNext]_vars

SpecDrive == Init /\ [][AdmNext]_vars

\* ------------------------------------------------------- claims: HTTP layer
IsUpload(r) == request[r].kind = "upload_audio"
Over2GB(r) == request[r].size.gib > 2 \/ (request[r].size.gib = 2 /\ request[r].size.rem > 0)
BadType(r) ==
    request[r].content_type \notin {"audio/mpeg", "audio/wav", "audio/mp4", "audio/m4a"}
ConnectorEntered(r) == session[r] # "None" \/ result[r] # NoResult

\* C3: every upload request whose body is larger than 2GB (2*1024^3 bytes) is
\* answered 413, and at no point of its handling is the connector entered: no
\* session is opened and upload_file_to_ai_drive is not called.
C3_OversizeRejected ==
    \A r \in Reqs :
        IsUpload(r) /\ Over2GB(r) =>
            /\ ~ConnectorEntered(r)
            /\ pc[r] \in {"validate", "done"}
            /\ pc[r] = "done" => response[r].status_code = 413

C3_Witness ==
    \E r \in Reqs :
        /\ IsUpload(r) /\ Over2GB(r) /\ ~BadType(r)
        /\ pc[r] = "done" /\ response[r].status_code = 413

\* C4 as stated: every upload request of an unsupported content type is
\* answered 400 without the connector being entered.
C4_Original ==
    \A r \in Reqs :
        IsUpload(r) /\ BadType(r) =>
            /\ ~ConnectorEntered(r)
            /\ pc[r] = "done" => response[r].status_code = 400

\* C4 (amended): every upload request of an unsupported content type is
\* rejected before any network I/O (no session opened, no upload call); the
\* answer is 400 when the body is within 2GB and 413 when it is larger, the
\* size check coming first.
C4_BadTypeRejected ==
    \A r \in Reqs :
        IsUpload(r) /\ BadType(r) =>
            /\ ~ConnectorEntered(r)
            /\ pc[r] \in {"validate", "done"}
            /\ pc[r] = "done" =>
                  response[r].status_code = (IF Over2GB(r) THEN 413 ELSE 400)

C4_Witness ==
    \E r \in Reqs :
        /\ IsUpload(r) /\ BadType(r) /\ ~Over2GB(r)
        /\ pc[r] = "done" /\ response[r].status_code = 400

\* C7: under every interleaving of the requests, a session is open only
\* inside the connector scope: once a handler has left the scope (and so once
\* it has responded), the session it opened is closed, whether the call inside
\* returned a success or an error envelope.
C7_SessionScoped ==
    \A r \in Reqs :
        /\ session[r] = "open" => pc[r] \in {"call", "exit"}
        /\ pc[r] \in {"call", "exit"} => session[r] = "open"
        /\ pc[r] \in {"check", "done"} /\ result[r] # NoResult => session[r] = "closed"

C7_Witness ==
    \E r1, r2 \in Reqs :
        /\ pc[r1] = "done" /\ result[r1].status = "error" /\ session[r1] = "closed"
        /\ pc[r2] = "exit" /\ result[r2].status = "success" /\ session[r2] = "open"

\* C9: a validation failure keeps its 4xx code (413 oversize, 400 unsupported
\* type) and is never answered 500; every other failure (an error envelope
\* from the connector, an exception opening the session) is answered 500; a
\* 200 response carries a connector result whose status is not error.
C9_StatusCodes ==
    \A r \in Reqs :
        pc[r] = "done" =>
            LET code == response[r].status_code
            IN  /\ code \in {200, 400, 413, 500}
                /\ code \in {400, 413} <=> (IsUpload(r) /\ (Over2GB(r) \/ BadType(r)))
                /\ code = 413 <=> (IsUpload(r) /\ Over2GB(r))
                /\ code = 500 <=>
                      \/ result[r].status = "error"
                      \/ session[r] = "None" /\ ~(IsUpload(r) /\ (Over2GB(r) \/ BadType(r)))
                /\ code = 200 <=> (result[r] # NoResult /\ result[r].status # "error")
                /\ code = 200 => response[r].content = result[r]

C9_Witness ==
    \E r1, r2 \in Reqs :
        /\ pc[r1] = "done" /\ response[r1].status_code = 413
        /\ pc[r2] = "done" /\ response[r2].status_code = 500
        /\ result[r2].status = "error"

\* C10: the status operation has no job store behind it: for every job_id,
\* issued by an earlier start-transcription call or not, the status query
\* yields the same synthetic record (status processing, progress 45 within
\* 0..100, the stage-2 name as current_stage), and a status request is
\* answered with that record unless opening the session failed.
SyntheticStatus(job_id) ==
    [status |-> "processing", job_id |-> job_id, progress |-> 45,
     current_stage |-> "stage2: speaker identification and segmentation",
     estimated_remaining |-> "20min"]

C10_StatusSynthetic ==
    \A r \in Reqs :
        request[r].kind = "get_transcription_status" =>
            /\ result[r] \in {NoResult, SyntheticStatus(request[r].job_id)}
            /\ pc[r] \in {"exit", "check", "done"} /\ session[r] # "None" =>
                  /\ result[r] = SyntheticStatus(request[r].job_id)
                  /\ result[r].progress \in 0..100
            /\ pc[r] = "done" =>
                  \/ response[r] = JSONResponse(SyntheticStatus(request[r].job_id))
                  \/ response[r].status_code = 500 /\ session[r] = "None"

C10_Witness ==
    \E r1, r2 \in Reqs :
        /\ request[r1].kind = "start_transcription" /\ pc[r1] = "done"
        /\ response[r1].status_code = 200
        /\ request[r2].kind = "get_transcription_status" /\ pc[r2] = "done"
        /\ request[r2].job_id = response[r1].content.job_id /\ known[r2]
        /\ response[r2].status_code = 200

\* C13: upload_audio reads the whole body, then checks the size, then the
\* content type: a request that is both larger than 2GB and of an unsupported
\* type is answered 413 and never 400, and a request is answered 400 exactly
\* when its type is unsupported and its size is within the limit.
C13_SizeCheckFirst ==
    \A r \in Reqs :
        IsUpload(r) =>
            /\ file_data[r] = request[r].size
            /\ response[r].status_code # 0 => pc[r] = "done"
            /\ (Over2GB(r) /\ BadType(r)) => response[r].status_code \in {0, 413}
            /\ response[r].status_code = 400 => (BadType(r) /\ ~Over2GB(r))
            /\ (pc[r] = "done" /\ BadType(r) /\ ~Over2GB(r)) => response[r].status_code = 400

C13_Witness ==
    \E r \in Reqs :
        /\ IsUpload(r) /\ Over2GB(r) /\ BadType(r)
        /\ file_data[r] = request[r].size
        /\ pc[r] = "done" /\ response[r].status_code = 413


\* --------------------------------------------- claims: TranscriptionService
StageKey(k) == <<"stage1", "stage2", "stage3", "stage4">>[k]
StageFailed(k) ==
    StageKey(k) \in DOMAIN results /\ results[StageKey(k)].status = "error"

\* C1 as stated: after a stage k in 1..3 has yielded an error result, the
\* stages k+1..4 and the save step are still executed before the call ends.
C1_Original ==
    \A k \in 1..3 :
        ts_pc = "done" /\ StageFailed(k) =>
            {StageKey(j) : j \in (k + 1)..4} \cup {"final"} \subseteq DOMAIN results

\* C1 (amended): a stage's failure is converted into a {status: error, message}
\* result for that stage, which has no text; after a stage k in 1..3 has
\* yielded it, reading its text raises KeyError, so none of the stages k+1..4
\* nor the save step is executed and the call returns the overall error
\* envelope.
C1_ErrorStageHalts ==
    \A k \in 1..3 :
        StageFailed(k) =>
            /\ DOMAIN results[StageKey(k)] = {"status", "message"}
            /\ DOMAIN results = {StageKey(j) : j \in 1..k}
            /\ ts_pc \in {StageKey(k + 1), "exit", "done"}
            /\ ts_pc \in {"exit", "done"} => ts_exc = [type |-> "KeyError", key |-> "text"]
            /\ ts_pc = "done" =>
                  /\ ts_return.status = "error"
                  /\ "stages" \notin DOMAIN ts_return

C1_Witness ==
    /\ ts_pc = "done"
    /\ StageFailed(2)
    /\ Len(stdout) = 3
    /\ ts_return.status = "error"

\* C2 as stated: whatever the call returns, success or error, carries a
\* stages dictionary holding the result of every stage that was executed.
C2_Original ==
    ts_pc = "done" =>
        \A k \in DOMAIN results :
            /\ "stages" \in DOMAIN ts_return
            /\ k \in DOMAIN ts_return.stages
            /\ ts_return.stages[k] = results[k]

\* C2 (amended): a result of status success carries a stages dictionary with
\* the results of all of stage1..stage4 and final, as they were computed; a
\* result of status error carries only status and message, and the stage
\* results computed before the failure are dropped.
C2_StagesOnSuccessOnly ==
    ts_pc = "done" =>
        /\ ts_return.status \in {"success", "error"}
        /\ ts_return.status = "success" =>
              /\ DOMAIN ts_return.stages = {"stage1", "stage2", "stage3", "stage4", "final"}
              /\ ts_return.stages = results
        /\ ts_return.status = "error" => DOMAIN ts_return = {"status", "message"}

C2_Witness ==
    /\ ts_pc = "done"
    /\ ts_return.status = "success"
    /\ ts_return.stages["stage4"].status = "error"
    /\ ts_return.stages["final"].status = "error"

C6_ContentPreserved ==
    \A k \in 1..3 :
        (StageKey(k + 1) \in DOMAIN results /\ results[StageKey(k + 1)].status = "success") =>
            /\ results[StageKey(k)].status = "success"
            /\ IsSubstring(results[StageKey(k)].text, results[StageKey(k + 1)].text)
            /\ Len(results[StageKey(k + 1)].text) >= Len(results[StageKey(k)].text)

C6_Witness ==
    /\ ts_pc = "done"
    /\ ts_return.status = "success"
    /\ \A k \in 1..4 : ts_return.stages[StageKey(k)].status = "success"
    /\ ts_return.stages["final"].status = "success"

\* C11: the save writes to the single path <outputFolder>/<audio-stem>_transcription.md
\* and touches no other file; a run on an audio path and output folder that
\* an earlier run already wrote for opens the same path again and overwrites
\* that file, leaving the set of files as it was; and once the directory
\* creation step is passed the output directory exists, whether it existed
\* before or not.
C11_IdempotentNaming ==
    [][ (ts_pc = "save" /\ ts_pc' = "exit") =>
            LET out == [dir |-> output_folder,
                        name |-> <<audio_file_path.name[1], "_transcription.md">>]
                final == results'["final"]
                reached == Len(writes') = Len(writes) + 1
            IN  /\ DOMAIN fs_files' \subseteq DOMAIN fs_files \cup {out}
                /\ \A p \in DOMAIN fs_files \ {out} : fs_files'[p] = fs_files[p]
                /\ reached \/ writes' = writes
                /\ reached =>
                      /\ writes'[Len(writes')].path = out
                      /\ out \in DOMAIN fs_files'
                      /\ output_folder \in fs_dirs'
                /\ \A i \in DOMAIN writes :
                      (reached /\ writes[i].audio = audio_file_path
                               /\ writes[i].folder = output_folder) =>
                          /\ writes[i].path = out
                          /\ DOMAIN fs_files' = DOMAIN fs_files
                /\ final.status = "success" =>
                      /\ reached
                      /\ final.output_file = out
                      /\ fs_files'[out] = results["stage4"].text ]_vars

C11_Witness ==
    /\ ts_pc = "exit"
    /\ ncalls = 2
    /\ Len(writes) = 2
    /\ writes[1].audio = writes[2].audio
    /\ writes[1].folder = "out" /\ writes[2].folder = "out"
    /\ writes[1].path = writes[2].path
    /\ results["final"].status = "success"
    /\ fs_files[writes[2].path] = results["stage4"].text
    /\ Cardinality(DOMAIN fs_files) = 3


\* C12: a failure while saving does not change the overall outcome: when all
\* four stages succeed and the save fails, the return statement still builds
\* the envelope of status success, with stages.final holding {status: error},
\* and the call returns it (the only other return at that point is the error
\* envelope for a raising SDK exit, which a successful save gets as well); so
\* status success does not imply that the output file was written.
AllStagesSucceeded ==
    /\ {"stage1", "stage2", "stage3", "stage4"} \subseteq DOMAIN results
    /\ \A k \in 1..4 : results[StageKey(k)].status = "success"

SaveFailed == "final" \in DOMAIN results /\ results["final"].status = "error"

C12_SaveFailureKeepsSuccess ==
    (AllStagesSucceeded /\ SaveFailed) =>
        /\ ts_pc \in {"exit", "done"}
        /\ ts_pending.status = "success"
        /\ ts_pending.stages = results
        /\ ts_pending.stages["final"].status = "error"
        /\ ts_pc = "done" =>
              \/ /\ ts_return.status = "success"
                 /\ ts_return.stages["final"].status = "error"
                 /\ ts_return.stages = results
              \/ /\ ts_return = [status |-> "error",
                                 message |-> <<"transcription error: ",
                                               [type |-> "Exception", key |-> "sdk"]>>]
                 /\ ts_sdk # "None"

C12_Witness ==
    /\ ts_pc = "done"
    /\ AllStagesSucceeded /\ SaveFailed
    /\ ts_return.status = "success"
    /\ ts_return.stages["final"].status = "error"
    /\ output_folder = "out"
    /\ [dir |-> "out", name |-> <<audio_file_path.name[1], "_transcription.md">>]
           \notin DOMAIN fs_files


\* ---------------------------------------------------- claims: AIDriveManager
\* C8: each of the four AIDriveManager operations ends by returning a dict
\* whose status is success or error and never raises to its caller; every
\* internal failure (a failure to open or to close the SDK session, the file
\* vanishing before its size is read) and a missing local file in upload_file
\* yield {status: error, message}.
C8_AlwaysEnvelope ==
    /\ ~adm_ret.raised
    /\ adm_pc = "done" =>
          /\ adm_ret.value.status \in {"success", "error"}
          /\ adm_exc # [type |-> "None", key |-> ""] => adm_ret.value.status = "error"
          /\ adm_ret.value.status = "error" => DOMAIN adm_ret.value = {"status", "message"}
          /\ (adm_op.op = "upload_file" /\ adm_sdk = "None") => adm_ret.value.status = "error"

C8_Witness ==
    /\ adm_pc = "done"
    /\ adm_op.op = "upload_file"
    /\ adm_exc = [type |-> "Exception", key |-> "sdk_exit"]
    /\ adm_ret.value.status = "error"

====
